---- MODULE Spec2Model ----
(***************************************************************************)
(* State model of useImportWizardFormState                                 *)
(* (src/components/ImportWizard/ImportWizardFormContext.tsx).              *)
(*                                                                         *)
(* The hook's React state is the set of form fields (value and the         *)
(* baseline the field was initialised with), the watched storage classes,  *)
(* the source root-discovery query and the credentialsAreValid flag.       *)
(* Everything the hook derives on a render (isStatefulMigration, the       *)
(* pipeline names, the credentials rule, isSomeFormDirty) is an operator   *)
(* over that state.  One action per event handler.                         *)
(***************************************************************************)
EXTENDS Integers, Sequences, FiniteSets, TLC

\* Longest selection list handed to onSelectedPVCsChange.
MaxSelected == 2

\* A string-typed property that is undefined.
Undefined == "undefined"

\* An object-typed value that may be null or undefined is a list of at most
\* one element: None is null/undefined, Some(x) is the object x.
None == << >>
Some(x) == << x >>

\* A JavaScript string (or undefined) used as a condition.
Truthy(s) == s # Undefined /\ s # ""

----------------------------------------------------------------------------
(* Input domains *)

ClaimNames == {"a", "b", "c"}

\* Claims whose rows the history variable follows.
TracedNames == {"a"}

\* Claim resources the selection table can hand over: metadata.name (optional
\* in the resource type) and the capacity getCapacity reads.  Claim "a" is
\* seen with two capacities (it was resized between two events).
PVCs ==
  { [name |-> "a", capacity |-> "10Gi"],
    [name |-> "a", capacity |-> "20Gi"],
    [name |-> "b", capacity |-> "10Gi"],
    [name |-> "c", capacity |-> "20Gi"],
    [name |-> Undefined, capacity |-> "10Gi"] }

\* Row of a claim in the selection table.
Row(pvc) ==
  CASE pvc.name = "a" -> 1
    [] pvc.name = "b" -> 2
    [] pvc.name = "c" -> 3
    [] OTHER -> 4

\* Selection lists: the selected claims of one namespace in the order of the
\* table rows, so names are pairwise distinct.
Selections ==
  { s \in UNION { [1..n -> PVCs] : n \in 0..MaxSelected } :
      \A i, j \in DOMAIN s : i < j => Row(s[i]) < Row(s[j]) }

\* storageClassesWatch.data: not loaded, a list without a default class, a
\* list whose default class stands behind a non-default one, a list with two
\* classes marked default.
StorageClassData ==
  { None,
    Some(<< [name |-> "fast", isDefault |-> FALSE] >>),
    Some(<< [name |-> "fast", isDefault |-> FALSE], [name |-> "gold", isDefault |-> TRUE] >>),
    Some(<< [name |-> "fast", isDefault |-> TRUE], [name |-> "gold", isDefault |-> TRUE] >>) }

\* Row values a user saves from the Edit PVCs step.
EditInputs ==
  { [targetPvcName |-> "a-copy", storageClass |-> "fast",
     capacity |-> "20Gi", verifyCopy |-> TRUE] }

Urls == {"", "u1", "u2"}
Tokens == {"", "t1", "t2"}

\* Stored secrets embed the credentials they were configured with.
Secrets == [url : Urls \ {""}, token : Tokens \ {""}]
Namespaces == {"", "ns1"}
Yamls == {"", "kind: Pipeline"}
YamlFields ==
  {"stagePipelineYaml", "stagePipelineRunYaml", "cutoverPipelineYaml", "cutoverPipelineRunYaml"}

\* Inputs of the whole-wizard specification (one edit per field suffices to
\* make a group dirty).
FormUrls == {"", "u1"}
FormTokens == {"", "t1"}
FormSecrets == {None, Some([url |-> "u1", token |-> "t1"])}
FormSelections == { s \in Selections : Len(s) <= 1 /\ \A i \in DOMAIN s : s[i].name = "b" }
FormPipelineNames == {"", "app"}

----------------------------------------------------------------------------
(* State *)

VARIABLES
  apiUrlField, tokenField, sourceApiSecretField, sourceNamespaceField,
  sourceApiRootQuery, credentialsAreValid, storageClassesWatch,
  selectedPVCsField, isEditModeByPVCField, editValuesByPVCField,
  pipelineNameField, reviewFields,
  history    \* what selection changes did to the rows of the traced claims

vars ==
  << apiUrlField, tokenField, sourceApiSecretField, sourceNamespaceField,
     sourceApiRootQuery, credentialsAreValid, storageClassesWatch,
     selectedPVCsField, isEditModeByPVCField, editValuesByPVCField,
     pipelineNameField, reviewFields, history >>

credentialsVars ==
  << apiUrlField, tokenField, sourceApiSecretField, sourceNamespaceField,
     sourceApiRootQuery, credentialsAreValid >>

pvcVars ==
  << storageClassesWatch, selectedPVCsField, isEditModeByPVCField,
     editValuesByPVCField, history >>

----------------------------------------------------------------------------
(* Form field primitives *)

useFormField(initialValue) == [value |-> initialValue, initialValue |-> initialValue]

setValue(field, v) == [field EXCEPT !.value = v]

reinitialize(field, v) == [value |-> v, initialValue |-> v]

fieldIsDirty(field) == field.value # field.initialValue

\* useFormState(fields).isDirty: some field of the group is dirty.
formIsDirty(fields) == \E k \in DOMAIN fields : fieldIsDirty(fields[k])

Init ==
  /\ apiUrlField = useFormField("")
  /\ tokenField = useFormField("")
  /\ sourceApiSecretField = useFormField(None)
  /\ sourceNamespaceField = useFormField("")
  /\ sourceApiRootQuery = [status |-> "idle"]
  /\ credentialsAreValid = FALSE
  /\ storageClassesWatch = [data |-> None]
  /\ selectedPVCsField = useFormField(<< >>)
  /\ isEditModeByPVCField = useFormField(<< >>)
  /\ editValuesByPVCField = useFormField(<< >>)
  /\ pipelineNameField = useFormField("")
  /\ reviewFields =
       [ destinationApiSecret |-> useFormField(None),
         stagePipelineYaml |-> useFormField(""),
         stagePipelineRunYaml |-> useFormField(""),
         cutoverPipelineYaml |-> useFormField(""),
         cutoverPipelineRunYaml |-> useFormField("") ]
  /\ history = [dropped |-> {}, reselected |-> {}, cleared |-> {}]

----------------------------------------------------------------------------
(* Selection change: onSelectedPVCsChange *)

\* getCapacity(pvc): the capacity string of the claim resource.
getCapacity(pvc) == pvc.capacity

isDefaultStorageClass(sc) == sc.isDefault

\* Mutant: the first class of the list, default or not.
firstStorageClass(data) ==
  IF data = << >> THEN None ELSE Some(data[1])

\* Array.prototype.find: the first element that satisfies the predicate.
findDefaultStorageClass(data) ==
  IF \E i \in DOMAIN data : isDefaultStorageClass(data[i])
    THEN Some(data[CHOOSE i \in DOMAIN data :
                     /\ isDefaultStorageClass(data[i])
                     /\ \A j \in DOMAIN data : j < i => ~isDefaultStorageClass(data[j])])
    ELSE None

\* storageClassesWatch.data?.find(isDefaultStorageClass)
defaultStorageClass ==
  IF storageClassesWatch.data = None
    THEN None
    ELSE findDefaultStorageClass(storageClassesWatch.data[1])

\* defaultStorageClass?.metadata.name || ''
defaultStorageClassName ==
  IF defaultStorageClass = None
    THEN ""
    ELSE IF Truthy(defaultStorageClass[1].name) THEN defaultStorageClass[1].name ELSE ""

defaultEditValues(pvc) ==
  [ targetPvcName |-> pvc.name,
    storageClass |-> defaultStorageClassName,
    capacity |-> getCapacity(pvc),
    verifyCopy |-> FALSE ]

\* Names the forEach loop writes a key for: claims whose metadata.name is set.
selectedNames(selectedPVCs) ==
  { selectedPVCs[i].name : i \in { j \in DOMAIN selectedPVCs : Truthy(selectedPVCs[j].name) } }

\* The forEach loop assigns keys in list order, so the last claim of a name
\* is the one whose default stays.
lastWithName(selectedPVCs, name) ==
  selectedPVCs[CHOOSE i \in DOMAIN selectedPVCs :
                 /\ selectedPVCs[i].name = name
                 /\ \A j \in DOMAIN selectedPVCs : j > i => selectedPVCs[j].name # name]

\* Mutant: the keys of the previous edit-mode map are kept.
mergedIsEditModeByPVC(selectedPVCs) ==
  [ name \in selectedNames(selectedPVCs) \cup DOMAIN isEditModeByPVCField.value |-> FALSE ]

\* Mutant: a claim that stays selected keeps its edit mode.
carriedIsEditModeByPVC(selectedPVCs) ==
  [ name \in selectedNames(selectedPVCs) |->
      IF name \in DOMAIN isEditModeByPVCField.value
        THEN isEditModeByPVCField.value[name]
        ELSE FALSE ]

defaultIsEditModeByPVC(selectedPVCs) ==
  [ name \in selectedNames(selectedPVCs) |-> FALSE ]

\* Mutant: every selected claim gets fresh defaults.
freshEditValuesByPVC(selectedPVCs) ==
  [ name \in selectedNames(selectedPVCs) |->
      defaultEditValues(lastWithName(selectedPVCs, name)) ]

\* Mutant: the new entries are merged into the previous map.
mergedEditValuesByPVC(selectedPVCs) ==
  [ name \in selectedNames(selectedPVCs) \cup DOMAIN editValuesByPVCField.value |->
      IF name \in DOMAIN editValuesByPVCField.value
        THEN editValuesByPVCField.value[name]
        ELSE defaultEditValues(lastWithName(selectedPVCs, name)) ]

\* editValuesByPVCField.value[name] || defaultEditValues
defaultEditValuesByPVC(selectedPVCs) ==
  [ name \in selectedNames(selectedPVCs) |->
      IF name \in DOMAIN editValuesByPVCField.value
        THEN editValuesByPVCField.value[name]
        ELSE defaultEditValues(lastWithName(selectedPVCs, name)) ]

onSelectedPVCsChange(selectedPVCs) ==
  /\ isEditModeByPVCField' = reinitialize(isEditModeByPVCField, defaultIsEditModeByPVC(selectedPVCs))
  /\ editValuesByPVCField' = reinitialize(editValuesByPVCField, defaultEditValuesByPVC(selectedPVCs))

\* History of the traced claims across a selection change:
\*   dropped    - deselected claims whose user-saved row values were dropped
\*                by this or an earlier selection change;
\*   reselected - claims of dropped that this selection change selected again;
\*   cleared    - claims this selection change kept selected and that were in
\*                edit mode before it.
historyAfterSelection(selectedPVCs) ==
  LET names == selectedNames(selectedPVCs)
      before == editValuesByPVCField.value
  IN [ dropped |->
         (history.dropped \ names) \cup
           { name \in TracedNames \cap (DOMAIN before \ names) : before[name] \in EditInputs },
       reselected |-> history.dropped \cap names,
       cleared |->
         { name \in TracedNames \cap names \cap DOMAIN isEditModeByPVCField.value :
             isEditModeByPVCField.value[name] } ]

\* Any other event: reselected and cleared describe the last selection change
\* only while no other event has followed it.
historyAfterOther == [history EXCEPT !.reselected = {}, !.cleared = {}]

\* selectedPVCsField.setValue(selectedPVCs): stores the list, then runs the
\* field's onChange option.
SetSelectedPVCs(selectedPVCs) ==
  /\ selectedPVCsField' = setValue(selectedPVCsField, selectedPVCs)
  /\ onSelectedPVCsChange(selectedPVCs)
  /\ history' = historyAfterSelection(selectedPVCs)
  /\ UNCHANGED << credentialsVars, storageClassesWatch, pipelineNameField, reviewFields >>

\* A row of the Edit PVCs step is saved: the row of a selected claim gets the
\* values of the row form.
SetEditValues(name, values) ==
  /\ name \in DOMAIN editValuesByPVCField.value
  /\ editValuesByPVCField' =
       setValue(editValuesByPVCField, [editValuesByPVCField.value EXCEPT ![name] = values])
  /\ history' = historyAfterOther
  /\ UNCHANGED << credentialsVars, storageClassesWatch, selectedPVCsField,
                  isEditModeByPVCField, pipelineNameField, reviewFields >>

\* A row of the Edit PVCs step enters or leaves edit mode.
SetIsEditMode(name, isEditMode) ==
  /\ name \in DOMAIN isEditModeByPVCField.value
  /\ isEditModeByPVCField' =
       setValue(isEditModeByPVCField, [isEditModeByPVCField.value EXCEPT ![name] = isEditMode])
  /\ history' = historyAfterOther
  /\ UNCHANGED << credentialsVars, storageClassesWatch, selectedPVCsField,
                  editValuesByPVCField, pipelineNameField, reviewFields >>

\* The storage-class watch delivers a new list.
StorageClassesUpdate(data) ==
  /\ storageClassesWatch' = [data |-> data]
  /\ history' = historyAfterOther
  /\ UNCHANGED << credentialsVars, selectedPVCsField, isEditModeByPVCField,
                  editValuesByPVCField, pipelineNameField, reviewFields >>

NextPVC ==
  \/ \E selectedPVCs \in Selections : SetSelectedPVCs(selectedPVCs)
  \/ \E name \in ClaimNames, values \in EditInputs : SetEditValues(name, values)
  \/ \E name \in ClaimNames, isEditMode \in BOOLEAN : SetIsEditMode(name, isEditMode)
  \/ \E data \in StorageClassData : StorageClassesUpdate(data)

SpecPVC == Init /\ [][NextPVC]_vars

\* C1: after any sequence of selection changes, the key sets of both per-claim
\* maps are exactly the set of names of the selected claims.
KeySetsEqualSelection ==
  /\ DOMAIN editValuesByPVCField.value = selectedNames(selectedPVCsField.value)
  /\ DOMAIN isEditModeByPVCField.value = selectedNames(selectedPVCsField.value)

\* A step of the selection handler: the selection it was given is the one
\* the field holds afterwards.
SelectionChange == SetSelectedPVCs(selectedPVCsField'.value)

\* The default storage class name, read off the watched list: the name of the
\* first class marked default, the empty string when none is or no list is
\* loaded.
ExpectedStorageClassName ==
  LET data == storageClassesWatch.data
      defaults == IF data = None THEN {} ELSE { i \in DOMAIN data[1] : data[1][i].isDefault }
  IN IF defaults = {}
       THEN ""
       ELSE data[1][CHOOSE i \in defaults : \A j \in defaults : i <= j].name

ExpectedDefault(pvc) ==
  [ targetPvcName |-> pvc.name, storageClass |-> ExpectedStorageClassName,
    capacity |-> pvc.capacity, verifyCopy |-> FALSE ]

\* C2: a selection change leaves the row values of every claim that had an
\* entry and is in the new selection exactly as they were.
ExistingEditValuesKept ==
  [][ SelectionChange =>
        \A name \in DOMAIN editValuesByPVCField.value \cap selectedNames(selectedPVCsField'.value) :
          editValuesByPVCField'.value[name] = editValuesByPVCField.value[name] ]_vars

\* C2 witness: claim "a" holds row values carried over a selection change
\* whose capacity is no longer the capacity of the selected claim.
KeptDespiteNewCapacity ==
  /\ "a" \in DOMAIN editValuesByPVCField.value
  /\ editValuesByPVCField.value["a"].verifyCopy = FALSE
  /\ editValuesByPVCField.initialValue["a"] = editValuesByPVCField.value["a"]
  /\ \E i \in DOMAIN selectedPVCsField.value :
       /\ selectedPVCsField.value[i].name = "a"
       /\ selectedPVCsField.value[i].capacity # editValuesByPVCField.value["a"].capacity
  /\ editValuesByPVCField.value["a"].storageClass # ExpectedStorageClassName

\* C3: a selection change gives every selected claim that had no entry the
\* default row values: its own name, the default storage class name (or ""),
\* its current capacity, verifyCopy false.
NewEntriesAreDefaults ==
  [][ SelectionChange =>
        \A i \in DOMAIN selectedPVCsField'.value :
          LET pvc == selectedPVCsField'.value[i]
          IN (Truthy(pvc.name) /\ pvc.name \notin DOMAIN editValuesByPVCField.value)
               => editValuesByPVCField'.value[pvc.name] = ExpectedDefault(pvc) ]_vars

\* C3 witness: a freshly selected claim carries the default class "gold" that
\* stands second in the watched list, next to a row the user saved.
DefaultEntryCreated ==
  /\ history.cleared = {} /\ history.reselected = {}
  /\ \E i \in DOMAIN selectedPVCsField.value :
       LET pvc == selectedPVCsField.value[i]
       IN /\ pvc.name = "c"
          /\ editValuesByPVCField.value["c"] =
               [ targetPvcName |-> "c", storageClass |-> "gold",
                 capacity |-> "20Gi", verifyCopy |-> FALSE ]
          /\ editValuesByPVCField.initialValue["c"] = editValuesByPVCField.value["c"]

\* C4: a selection change leaves no entry for a claim outside the new
\* selection, and a claim that was not selected before the change gets the
\* default row values built from its claim resource, whatever values it held
\* when it was selected earlier.
EditStateLostOnDeselection ==
  [][ SelectionChange =>
        /\ \A name \in ClaimNames \ selectedNames(selectedPVCsField'.value) :
             name \notin DOMAIN editValuesByPVCField'.value
        /\ \A i \in DOMAIN selectedPVCsField'.value :
             LET pvc == selectedPVCsField'.value[i]
             IN (Truthy(pvc.name) /\ pvc.name \notin selectedNames(selectedPVCsField.value))
                  => /\ editValuesByPVCField'.value[pvc.name] = ExpectedDefault(pvc)
                     /\ editValuesByPVCField'.value[pvc.name] \notin EditInputs ]_vars

\* C4 witness: the user-saved row values of "a" were dropped when "a" was
\* deselected, and the selection change that brought "a" back gave it defaults.
ReselectedWithDefaults ==
  /\ "a" \in history.reselected
  /\ "a" \in DOMAIN editValuesByPVCField.value
  /\ editValuesByPVCField.value["a"].targetPvcName = "a"
  /\ editValuesByPVCField.value["a"].verifyCopy = FALSE

\* C9: after a selection change every entry of the edit-mode map is false.
EditModesResetOnSelection ==
  [][ SelectionChange =>
        \A name \in DOMAIN isEditModeByPVCField'.value :
          isEditModeByPVCField'.value[name] = FALSE ]_vars

\* C9 witness: "a" was in edit mode, stayed selected across a selection
\* change, and is out of edit mode.
EditModeCleared ==
  /\ "a" \in history.cleared
  /\ isEditModeByPVCField.value["a"] = FALSE

\* C1 witness: two named claims and their two rows, one of them user-saved.
TwoRowsForTwoClaims ==
  /\ selectedNames(selectedPVCsField.value) = {"a", "b"}
  /\ editValuesByPVCField.value["a"] \in EditInputs
  /\ isEditModeByPVCField.value["b"] = TRUE

----------------------------------------------------------------------------
(* Credentials rule: credentialsFieldSchema *)

\* A test of the schema passes.
Passes == "passes"

CannotConnect == "Cannot connect using these credentials"

\* secretMatchesCredentials(secret, apiUrl, token): the credentials embedded
\* in the secret are the given URL and token.
secretMatchesCredentials(secret, apiUrl, token) ==
  secret.url = apiUrl /\ secret.token = token

\* yup.string().required(): an empty string is a missing value.
required(label, value) ==
  IF value = "" THEN label \o " is a required field" ELSE Passes

\* Mutant: the loading state of the query is not looked at.
neverValidating(label, value) == Passes

\* test 'is-not-validating': createError() without a message gives the
\* schema's default message for the labelled field.
isNotValidating(label, value) ==
  IF sourceApiRootQuery.status = "loading" THEN label \o " is invalid" ELSE Passes

\* Mutant: credentialsAreValid is not looked at.
failsOnAnyMatch(label, value) ==
  IF /\ sourceApiSecretField.value # None
     /\ secretMatchesCredentials(sourceApiSecretField.value[1], apiUrlField.value, tokenField.value)
    THEN CannotConnect
    ELSE Passes

\* test 'loads-namespaces'
loadsNamespaces(label, value) ==
  IF /\ sourceApiSecretField.value # None
     /\ secretMatchesCredentials(sourceApiSecretField.value[1], apiUrlField.value, tokenField.value)
     /\ ~credentialsAreValid
    THEN CannotConnect
    ELSE Passes

\* Mutant: 'loads-namespaces' is attached before 'is-not-validating'.
swappedCredentialsTests(label, value) ==
  << required(label, value), loadsNamespaces(label, value), isNotValidating(label, value) >>

\* The tests of the chain in the order they are attached.
credentialsTests(label, value) ==
  << required(label, value), isNotValidating(label, value), loadsNamespaces(label, value) >>

\* The error a field reports: that of the first test of the chain that fails.
credentialsFieldSchema(label, value) ==
  LET results == credentialsTests(label, value)
      failed == { i \in DOMAIN results : results[i] # Passes }
  IN IF failed = {}
       THEN Passes
       ELSE results[CHOOSE i \in failed : \A j \in failed : i <= j]

apiUrlError == credentialsFieldSchema("Cluster API URL", apiUrlField.value)

tokenError == credentialsFieldSchema("OAuth token", tokenField.value)

SetApiUrl(value) ==
  /\ apiUrlField' = setValue(apiUrlField, value)
  /\ history' = historyAfterOther
  /\ UNCHANGED << tokenField, sourceApiSecretField, sourceNamespaceField, sourceApiRootQuery,
                  credentialsAreValid, storageClassesWatch, selectedPVCsField,
                  isEditModeByPVCField, editValuesByPVCField, pipelineNameField, reviewFields >>

SetToken(value) ==
  /\ tokenField' = setValue(tokenField, value)
  /\ history' = historyAfterOther
  /\ UNCHANGED << apiUrlField, sourceApiSecretField, sourceNamespaceField, sourceApiRootQuery,
                  credentialsAreValid, storageClassesWatch, selectedPVCsField,
                  isEditModeByPVCField, editValuesByPVCField, pipelineNameField, reviewFields >>

SetSourceNamespace(value) ==
  /\ sourceNamespaceField' = setValue(sourceNamespaceField, value)
  /\ history' = historyAfterOther
  /\ UNCHANGED << apiUrlField, tokenField, sourceApiSecretField, sourceApiRootQuery,
                  credentialsAreValid, storageClassesWatch, selectedPVCsField,
                  isEditModeByPVCField, editValuesByPVCField, pipelineNameField, reviewFields >>

\* The stored secret changes: useSourceApiRootQuery(sourceApiSecretField.value)
\* is keyed by the secret, so a new secret starts the root-discovery query and
\* no secret leaves it idle.
SetSourceApiSecret(secret) ==
  /\ sourceApiSecretField' = setValue(sourceApiSecretField, secret)
  /\ sourceApiRootQuery' = [status |-> IF secret = None THEN "idle" ELSE "loading"]
  /\ history' = historyAfterOther
  /\ UNCHANGED << apiUrlField, tokenField, sourceNamespaceField,
                  credentialsAreValid, storageClassesWatch, selectedPVCsField,
                  isEditModeByPVCField, editValuesByPVCField, pipelineNameField, reviewFields >>

\* The root-discovery query finishes.
SourceApiRootQuerySettles(status) ==
  /\ sourceApiRootQuery.status = "loading"
  /\ sourceApiRootQuery' = [status |-> status]
  /\ history' = historyAfterOther
  /\ UNCHANGED << apiUrlField, tokenField, sourceApiSecretField, sourceNamespaceField,
                  credentialsAreValid, storageClassesWatch, selectedPVCsField,
                  isEditModeByPVCField, editValuesByPVCField, pipelineNameField, reviewFields >>

\* areSourceCredentialsValid(...) is recomputed on every render from the two
\* fields, the secret and the query; the hook only reads its result, which is
\* left free here.
CredentialsAreValidChanges(valid) ==
  /\ credentialsAreValid' = valid
  /\ history' = historyAfterOther
  /\ UNCHANGED << apiUrlField, tokenField, sourceApiSecretField, sourceNamespaceField,
                  sourceApiRootQuery, storageClassesWatch, selectedPVCsField,
                  isEditModeByPVCField, editValuesByPVCField, pipelineNameField, reviewFields >>

NextCredentials ==
  \/ \E value \in Urls : SetApiUrl(value)
  \/ \E value \in Tokens : SetToken(value)
  \/ \E secret \in {None} \cup { Some(x) : x \in Secrets } : SetSourceApiSecret(secret)
  \/ \E status \in {"success", "error"} : SourceApiRootQuerySettles(status)
  \/ \E valid \in BOOLEAN : CredentialsAreValidChanges(valid)

SpecCredentials == Init /\ [][NextCredentials]_vars

SecretMatches ==
  /\ sourceApiSecretField.value # None
  /\ sourceApiSecretField.value[1].url = apiUrlField.value
  /\ sourceApiSecretField.value[1].token = tokenField.value

Loading == sourceApiRootQuery.status = "loading"

\* C5: while the root-discovery query is loading, both credentials fields
\* fail validation, whatever the URL, the token, the secret and
\* credentialsAreValid are.
FailsWhileLoading ==
  Loading => (apiUrlError # Passes /\ tokenError # Passes)

\* C5 witness: the query is loading for credentials that are typed in, match
\* the secret and are reported valid.
LoadingWithGoodCredentials ==
  /\ Loading
  /\ SecretMatches
  /\ apiUrlField.value # "" /\ tokenField.value # ""
  /\ credentialsAreValid

\* C6 as claimed: a matching secret with credentialsAreValid false makes both
\* fields report "Cannot connect using these credentials"; with
\* credentialsAreValid true a matching secret does not fail the fields.
CannotConnectWheneverMatching ==
  /\ (SecretMatches /\ ~credentialsAreValid)
       => (apiUrlError = CannotConnect /\ tokenError = CannotConnect)
  /\ (SecretMatches /\ credentialsAreValid)
       => (apiUrlError = Passes /\ tokenError = Passes)

\* C6 amended: once the query is not loading, a field that is not empty
\* reports "Cannot connect using these credentials" when the secret matches
\* and credentialsAreValid is false, and passes when the secret matches and
\* credentialsAreValid is true.
CannotConnectWhenSettled ==
  /\ (~Loading /\ SecretMatches /\ ~credentialsAreValid)
       => /\ apiUrlField.value # "" => apiUrlError = CannotConnect
          /\ tokenField.value # "" => tokenError = CannotConnect
  /\ (~Loading /\ SecretMatches /\ credentialsAreValid)
       => /\ apiUrlField.value # "" => apiUrlError = Passes
          /\ tokenField.value # "" => tokenError = Passes

\* C6 witness: the query has failed for the typed credentials and both fields
\* report the message.
CannotConnectShown ==
  /\ sourceApiRootQuery.status = "error"
  /\ SecretMatches
  /\ ~credentialsAreValid
  /\ apiUrlError = CannotConnect
  /\ tokenError = CannotConnect

\* C10: no credentials field reports "Cannot connect using these credentials"
\* while the root-discovery query is loading.
NoCannotConnectWhileLoading ==
  Loading => (apiUrlError # CannotConnect /\ tokenError # CannotConnect)

\* C10 witness: the query is loading, the secret matches the typed
\* credentials, credentialsAreValid is false, and the fields report the
\* loading failure.
LoadingHidesCannotConnect ==
  /\ Loading
  /\ SecretMatches
  /\ ~credentialsAreValid
  /\ apiUrlError = "Cluster API URL is invalid"
  /\ tokenError = "OAuth token is invalid"

----------------------------------------------------------------------------
(* Derived values and the form groups *)

isStatefulMigration == Len(selectedPVCsField.value) > 0

hasMultiplePipelines == isStatefulMigration

stagePipelineName == pipelineNameField.value \o "-stage"

\* Mutant: the cutover suffix is appended whether or not claims are selected.
alwaysSuffixedCutoverName == pipelineNameField.value \o "-cutover"

cutoverPipelineName ==
  IF hasMultiplePipelines
    THEN pipelineNameField.value \o "-cutover"
    ELSE pipelineNameField.value

useFormState(fields) == [fields |-> fields, isDirty |-> formIsDirty(fields)]

forms ==
  [ sourceClusterProject |->
      useFormState([ apiUrl |-> apiUrlField, token |-> tokenField,
                     sourceNamespace |-> sourceNamespaceField,
                     sourceApiSecret |-> sourceApiSecretField ]),
    pvcSelect |-> useFormState([ selectedPVCs |-> selectedPVCsField ]),
    pvcEdit |->
      useFormState([ isEditModeByPVC |-> isEditModeByPVCField,
                     editValuesByPVC |-> editValuesByPVCField ]),
    pipelineSettings |-> useFormState([ pipelineName |-> pipelineNameField ]),
    review |-> useFormState(reviewFields) ]

\* Mutant: every() in place of some().
everyFormDirty == \A name \in DOMAIN forms : forms[name].isDirty

\* Object.values(forms).some((form) => form.isDirty)
isSomeFormDirty == \E name \in DOMAIN forms : forms[name].isDirty

SetPipelineName(value) ==
  /\ pipelineNameField' = setValue(pipelineNameField, value)
  /\ history' = historyAfterOther
  /\ UNCHANGED << credentialsVars, storageClassesWatch, selectedPVCsField,
                  isEditModeByPVCField, editValuesByPVCField, reviewFields >>

\* One of the four YAML fields of the review step is edited.
SetReviewYaml(field, value) ==
  /\ field \in YamlFields
  /\ reviewFields' = [reviewFields EXCEPT ![field] = setValue(reviewFields[field], value)]
  /\ history' = historyAfterOther
  /\ UNCHANGED << credentialsVars, storageClassesWatch, selectedPVCsField,
                  isEditModeByPVCField, editValuesByPVCField, pipelineNameField >>

SetDestinationApiSecret(secret) ==
  /\ reviewFields' =
       [reviewFields EXCEPT !.destinationApiSecret = setValue(reviewFields.destinationApiSecret, secret)]
  /\ history' = historyAfterOther
  /\ UNCHANGED << credentialsVars, storageClassesWatch, selectedPVCsField,
                  isEditModeByPVCField, editValuesByPVCField, pipelineNameField >>

NextForms ==
  \/ \E value \in FormUrls : SetApiUrl(value)
  \/ \E value \in FormTokens : SetToken(value)
  \/ \E value \in Namespaces : SetSourceNamespace(value)
  \/ \E secret \in FormSecrets : SetSourceApiSecret(secret)
  \/ \E selectedPVCs \in FormSelections : SetSelectedPVCs(selectedPVCs)
  \/ \E values \in EditInputs : SetEditValues("b", values)
  \/ \E isEditMode \in BOOLEAN : SetIsEditMode("b", isEditMode)
  \/ \E value \in FormPipelineNames : SetPipelineName(value)
  \/ \E field \in YamlFields, value \in Yamls : SetReviewYaml(field, value)
  \/ \E secret \in FormSecrets : SetDestinationApiSecret(secret)

SpecForms == Init /\ [][NextForms]_vars

Next == NextPVC \/ NextCredentials \/ NextForms

Spec == Init /\ [][Next]_vars

FormNames == {"sourceClusterProject", "pvcSelect", "pvcEdit", "pipelineSettings", "review"}

\* C7: isSomeFormDirty is true exactly when one of the five form groups is
\* dirty, and false while every field still holds the value it was
\* initialised with.
SomeFormDirtyIffAGroupIs ==
  /\ DOMAIN forms = FormNames
  /\ isSomeFormDirty <=>
       \/ forms.sourceClusterProject.isDirty
       \/ forms.pvcSelect.isDirty
       \/ forms.pvcEdit.isDirty
       \/ forms.pipelineSettings.isDirty
       \/ forms.review.isDirty
  /\ ( /\ apiUrlField.value = "" /\ tokenField.value = ""
       /\ sourceNamespaceField.value = "" /\ sourceApiSecretField.value = None
       /\ selectedPVCsField.value = << >>
       /\ isEditModeByPVCField.value = isEditModeByPVCField.initialValue
       /\ editValuesByPVCField.value = editValuesByPVCField.initialValue
       /\ pipelineNameField.value = ""
       /\ \A field \in DOMAIN reviewFields :
            reviewFields[field].value = reviewFields[field].initialValue )
       => ~isSomeFormDirty

\* C7 witness: the review group alone is dirty, and so is the wizard.
OnlyReviewDirty ==
  /\ forms.review.isDirty
  /\ \A name \in FormNames \ {"review"} : ~forms[name].isDirty
  /\ isSomeFormDirty

\* C8: the migration is stateful exactly when the selection list is not
\* empty; the stage name is the pipeline name with "-stage" appended; the
\* cutover name is the pipeline name with "-cutover" appended when stateful
\* and the bare pipeline name otherwise.
DerivedNamesFollowState ==
  /\ isStatefulMigration <=> (selectedPVCsField.value # << >>)
  /\ stagePipelineName = pipelineNameField.value \o "-stage"
  /\ (selectedPVCsField.value # << >>)
       => cutoverPipelineName = pipelineNameField.value \o "-cutover"
  /\ (selectedPVCsField.value = << >>)
       => cutoverPipelineName = pipelineNameField.value

\* C8 witness: a claim is selected and the pipeline is named "app".
StatefulNamedPipeline ==
  /\ selectedPVCsField.value # << >>
  /\ pipelineNameField.value = "app"
  /\ stagePipelineName = "app-stage"
  /\ cutoverPipelineName = "app-cutover"

====
